---- MODULE Spec2Model ----
(***************************************************************************)
(* convex-backend-ops: the on-host lifecycle orchestrator (install,        *)
(* upgrade with backup and automatic rollback, rollback, reset,            *)
(* uninstall) as a state machine over the files it manages and the         *)
(* supervised service.                                                     *)
(*                                                                         *)
(* A file is modelled by its content: the version of the bundle it came    *)
(* from, Torn (created or truncated by a copy that then failed) or NoFile. *)
(* The data directory holds the entries convex.db and storage/.  Every     *)
(* filesystem or supervisor call may fail; injected failures are counted   *)
(* in faults and capped by MaxFaults.  Timestamps are whole seconds, as    *)
(* time.RFC3339 writes them.  One invocation runs at a time, start to      *)
(* finish: each command is one action, and last records how it returned.   *)
(***************************************************************************)
EXTENDS Integers, Sequences, FiniteSets, TLC

\* ------------------------------------------------------------- bounds
MaxFaults == 1      \* injected failures per behaviour
MaxTime   == 1      \* last second the clock reaches
MaxVersions == 2    \* bundle versions there are
MaxStamp  == 2      \* last second a backup of the pruning specification is stamped with

\* ------------------------------------------------------------- domains
DirOrder   == <<"1.0.0", "1.2.0", "2.0.0">>   \* version names, as os.ReadDir sorts v<version>
VersionSeq == SubSeq(DirOrder, 1, MaxVersions) \* the versions bundles come in
Versions   == {VersionSeq[i] : i \in 1..Len(VersionSeq)}
NoFile     == "absent"
Torn       == "torn"
Seed       == "db0"                           \* the convex.db a bundle ships
Written    == {"w1"}                          \* contents the running service writes to convex.db
FileVals   == Versions \cup {NoFile, Torn}

NoDir      == [ex |-> FALSE, db |-> NoFile, storage |-> FALSE]

NoMeta     == [st |-> "absent", version |-> "", ts |-> 0, reason |-> "", from |-> "", to |-> ""]
TornMeta   == [NoMeta EXCEPT !.st = "torn"]
NoBackup   == [ex |-> FALSE, bin |-> NoFile, data |-> NoDir, man |-> NoFile, meta |-> NoMeta]
NoBackups  == [v \in Versions |-> NoBackup]

\* What the last invocation was and how it returned: the command, the bundle
\* version or rollback argument it was given, the backup directory it used, the
\* step that failed, what became of upgrade's rollback, the retention count its
\* pruning used, whether it ran as root with systemctl on the PATH, and the
\* convex.db a rollback found in the data directory when it began to restore.
NoLast     == [name |-> "none", new |-> "", arg |-> "", dir |-> "", err |-> "none",
               rb |-> "none", ret |-> 0, pre |-> "ok", had |-> NoFile]

\* No invocation is under way.
NoInflight == <<>>

VARIABLES
    binary,     \* /usr/local/bin/convex-backend
    manifest,   \* /var/lib/convex/manifest.json
    data,       \* /var/lib/convex/data
    backups,    \* /var/lib/convex/backups/v<version>, by version
    config,     \* /etc/convex: convex.env, admin.key, instance.secret
    unit,       \* /etc/systemd/system/convex-backend.service
    enabled,    \* systemctl is-enabled
    svc,        \* the binary the running service process was started from, NoFile when stopped
    now,        \* wall clock, seconds
    faults,     \* failures injected so far
    last,       \* the last invocation and its result
    inflight    \* the invocations under way, step by step, where two run at once

vars == <<binary, manifest, data, backups, config, unit, enabled, svc, now, faults, last,
          inflight>>

Min(a, b) == IF a < b THEN a ELSE b
Cost(o)   == IF o.fault THEN 1 ELSE 0

\* ------------------------------------------------------------- file helpers
\* Outcomes of copyFile(src, dst): dst afterwards, whether it returned nil, and
\* whether the failure was injected (an I/O error) or forced (src missing).
copyFile(src, dst) ==
    IF src = NoFile
    THEN {[ok |-> FALSE, dst |-> dst, fault |-> FALSE]}            \* os.Open(src) fails
    ELSE {[ok |-> TRUE,  dst |-> src,  fault |-> FALSE],
          [ok |-> FALSE, dst |-> dst,  fault |-> TRUE],            \* MkdirAll or os.Create fails
          [ok |-> FALSE, dst |-> Torn, fault |-> TRUE]}            \* io.Copy fails after the truncate

\* copyFile onto the installed binary while the process running was started
\* from it: os.Create opens the file for writing with O_TRUNC, which the kernel
\* refuses (ETXTBSY) for an executable being run; the file is left as it is.
copyBinary(src, dst, running) ==
    IF src # NoFile /\ running # NoFile /\ dst # NoFile
    THEN {[ok |-> FALSE, dst |-> dst, fault |-> FALSE]}
    ELSE copyFile(src, dst)

\* Outcomes of copyDir(src, dst).  Entries of dst that src lacks are kept: the
\* copy writes into dst, it never clears it.
copyDir(src, dst) ==
    IF ~src.ex
    THEN {[ok |-> FALSE, dst |-> dst, fault |-> FALSE]}            \* os.Stat(src) fails
    ELSE LET made   == [dst EXCEPT !.ex = TRUE]
             withDb == [made EXCEPT !.db = IF src.db # NoFile THEN src.db ELSE made.db]
             all    == [withDb EXCEPT !.storage = src.storage \/ withDb.storage]
         IN  {[ok |-> TRUE,  dst |-> all, fault |-> FALSE],
              [ok |-> FALSE, dst |-> dst, fault |-> TRUE]}         \* MkdirAll(dst) fails
             \cup (IF src.db # NoFile
                   THEN {[ok |-> FALSE, dst |-> [made EXCEPT !.db = Torn], fault |-> TRUE]}
                   ELSE {})                                        \* copyFile of convex.db fails
             \cup (IF src.storage /\ ~withDb.storage
                   THEN {[ok |-> FALSE, dst |-> withDb, fault |-> TRUE]}
                   ELSE {})                                        \* copyDir of storage fails

\* readManifest: the version of a parsable manifest.
readManifest(m) == [ok |-> m \in Versions, version |-> IF m \in Versions THEN m ELSE ""]

RequiredFiles == <<"backend", "convex.db", "manifest.json", "credentials.json">>

\* A validation that looks for the manifest alone.
validateManifestOnly(bundle) ==
    [ok      |-> "manifest.json" \in bundle.members,
     missing |-> IF "manifest.json" \in bundle.members THEN "" ELSE "manifest.json"]

\* validateBundle: os.Stat of each required member in turn; the error names
\* the first one that does not exist.
validateBundle(bundle) ==
    LET absent == {i \in 1..Len(RequiredFiles) : RequiredFiles[i] \notin bundle.members}
    IN  [ok      |-> absent = {},
         missing |-> IF absent = {} THEN ""
                     ELSE RequiredFiles[CHOOSE i \in absent : \A j \in absent : i <= j]]

\* The bundle directories a command is given: the members they hold and the
\* version their manifest names; every complete bundle, and the bundles of the
\* first version that lack one member.
Bundles ==
    LET all == {RequiredFiles[i] : i \in 1..Len(RequiredFiles)}
    IN  [version : Versions, members : {all}]
        \cup [version : {VersionSeq[1]}, members : {all \ {f} : f \in all}]

\* ------------------------------------------------------------- supervisor
\* systemctl stop, with the process running (NoFile: none): the process is
\* gone on success; an injected failure leaves it.
stopService(running) ==
    IF ~unit
    THEN {[ok |-> FALSE, svc |-> running, fault |-> FALSE]}
    ELSE {[ok |-> TRUE,  svc |-> NoFile,  fault |-> FALSE],
          [ok |-> FALSE, svc |-> running, fault |-> TRUE]}

\* systemctl start, with the unit file there or not and the binary bin on
\* disk: a running unit is left as it is; a stopped one runs bin if bin is an
\* executable.
startUnit(hasUnit, running, bin) ==
    IF ~hasUnit
    THEN {[ok |-> FALSE, svc |-> running, fault |-> FALSE]}
    ELSE {[ok |-> TRUE,
           svc |-> IF running # NoFile THEN running
                   ELSE IF bin \in Versions THEN bin ELSE NoFile,
           fault |-> FALSE],
          [ok |-> FALSE, svc |-> running, fault |-> TRUE]}

\* waitForHealth: nil only if a probe saw 200, which takes a running service.
\* A running service that never answers 200 is no I/O failure: a timeout is
\* not counted in faults.
waitForHealth(running) ==
    IF running \in Versions
    THEN {[ok |-> TRUE, fault |-> FALSE], [ok |-> FALSE, fault |-> FALSE]}
    ELSE {[ok |-> FALSE, fault |-> FALSE]}

\* A systemctl call with outcomes outs, made with systemctl on the PATH or not:
\* without it exec.Command(...).Run() fails and the process running is left.
systemctl(pre, outs, running) ==
    IF pre = "no_systemd" THEN {[ok |-> FALSE, svc |-> running, fault |-> FALSE]} ELSE outs

\* What the data directory may hold a moment later: the running backend may
\* have written its database meanwhile.
ServiceMay(dat, running) ==
    {dat} \cup (IF running \in Versions /\ dat.ex
                THEN {[dat EXCEPT !.db = w] : w \in Written \ {dat.db}}
                ELSE {})

\* ------------------------------------------------------------- backup store
\* createBackup(backupDir, fromVersion, toVersion) into the directory b, at
\* second t, of the binary bin, the data directory dat and the manifest man:
\* MkdirAll, the binary, the data directory, the manifest, meta.json last.
\* The directory is written in place, whatever it already holds.
createBackup(b, bin, dat, man, fromVersion, toVersion, t) ==
    LET b1      == [b EXCEPT !.ex = TRUE]
        binOuts == copyFile(bin, b1.bin)
        b2      == [b1 EXCEPT !.bin = bin]
        datOuts == copyDir(dat, b2.data)
        b3      == [b2 EXCEPT !.data = (CHOOSE o \in datOuts : o.ok).dst]
        manOuts == copyFile(man, b3.man)
        b4      == [b3 EXCEPT !.man = man]
        meta    == [st |-> "ok", version |-> fromVersion, ts |-> t, reason |-> "upgrade",
                    from |-> fromVersion, to |-> toVersion]
        binOK   == bin # NoFile
        datOK   == binOK /\ dat.ex
        manOK   == datOK /\ man # NoFile
    IN  {[ok |-> FALSE, b |-> b, fault |-> TRUE]}
        \cup {[ok |-> FALSE, b |-> [b1 EXCEPT !.bin = o.dst], fault |-> o.fault] :
                o \in {x \in binOuts : ~x.ok}}
        \cup (IF binOK
              THEN {[ok |-> FALSE, b |-> [b2 EXCEPT !.data = o.dst], fault |-> o.fault] :
                      o \in {x \in datOuts : ~x.ok}}
              ELSE {})
        \cup (IF datOK
              THEN {[ok |-> FALSE, b |-> [b3 EXCEPT !.man = o.dst], fault |-> o.fault] :
                      o \in {x \in manOuts : ~x.ok}}
              ELSE {})
        \cup (IF manOK
              THEN {[ok |-> FALSE, b |-> b4, fault |-> TRUE],                          \* os.WriteFile cannot open meta.json
                    [ok |-> FALSE, b |-> [b4 EXCEPT !.meta = TornMeta], fault |-> TRUE], \* os.WriteFile fails after the truncate
                    [ok |-> TRUE,  b |-> [b4 EXCEPT !.meta = meta], fault |-> FALSE]}
              ELSE {})

\* A removal that returns nil and leaves the directory as it is.
keepAllData(dat) == {[ok |-> TRUE, data |-> dat, fault |-> FALSE]}

\* os.RemoveAll of the live data directory dat.
removeAllData(dat) ==
    {[ok |-> TRUE, data |-> NoDir, fault |-> FALSE],
     [ok |-> FALSE, data |-> dat, fault |-> TRUE]}
    \cup (IF dat.ex /\ dat.db # NoFile
          THEN {[ok |-> FALSE, data |-> [dat EXCEPT !.db = NoFile], fault |-> TRUE]}
          ELSE {})

\* restoreFromBackup(backupDir) of the rollback command, from the backup
\* directory b over the binary bin, the data directory dat and the manifest
\* man, with the process running: the binary, chmod, the data directory removed
\* and copied, the manifest.
restoreFromBackup(b, bin, dat, man, running) ==
    LET binOuts == copyBinary(b.bin, bin, running)
        removed == (CHOOSE o \in removeAllData(dat) : o.ok).data
        datOuts == copyDir(b.data, removed)
        binOK   == \E o \in binOuts : o.ok
        datOK   == binOK /\ b.data.ex
        copied  == (CHOOSE o \in datOuts : o.ok).dst
        manOuts == copyFile(b.man, man)
        out(k, bi, da, ma, f) == [ok |-> k, binary |-> bi, data |-> da, manifest |-> ma, fault |-> f]
    IN  {out(FALSE, o.dst, dat, man, o.fault) : o \in {x \in binOuts : ~x.ok}}
        \cup (IF binOK
              THEN {out(FALSE, b.bin, dat, man, TRUE)}                                 \* os.Chmod fails
                   \cup {out(FALSE, b.bin, o.data, man, TRUE) :
                           o \in {x \in removeAllData(dat) : ~x.ok}}
                   \cup {out(FALSE, b.bin, o.dst, man, o.fault) :
                           o \in {x \in datOuts : ~x.ok}}
              ELSE {})
        \cup (IF datOK
              THEN {out(o.ok, b.bin, copied, o.dst, o.fault) : o \in manOuts}
              ELSE {})

\* performRollback(backupDir) of upgrade: the same copies, written out a second
\* time in the source, then systemctl start.
performRollback(b, bin, dat, man, running) ==
    LET files == restoreFromBackup(b, bin, dat, man, running)
        out(r, k, s, f) == [ok |-> k, binary |-> r.binary, data |-> r.data,
                            manifest |-> r.manifest, svc |-> s, fault |-> f]
    IN  {out(r, FALSE, running, r.fault) : r \in {x \in files : ~x.ok}}
        \cup UNION {{out(r, s.ok, s.svc, s.fault) : s \in startUnit(unit, running, r.binary)} :
                      r \in {x \in files : x.ok}}

\* An installNewVersion that also copies the bundle's convex.db.
installWithData(version, bin, dat, man) ==
    {[ok |-> TRUE, binary |-> version, data |-> [dat EXCEPT !.db = Seed], manifest |-> version,
      fault |-> FALSE]}

\* installNewVersion(bundlePath), over the binary bin, the data directory dat
\* and the manifest man: the bundle's binary, chmod, the bundle's manifest.
\* Nothing under the data directory is written.
installNewVersion(version, bin, dat, man) ==
    LET binOuts == copyFile(version, bin)
        manOuts == copyFile(version, man)
        out(k, bi, ma, f) == [ok |-> k, binary |-> bi, data |-> dat, manifest |-> ma,
                              fault |-> f]
    IN  {out(FALSE, o.dst, man, o.fault) : o \in {x \in binOuts : ~x.ok}}
        \cup {out(FALSE, version, man, TRUE)}                                          \* os.Chmod fails
        \cup {out(o.ok, version, o.dst, o.fault) : o \in manOuts}

\* ------------------------------------------------------------- retention
DefaultRetention == 3
DigitChars == <<"0", "1", "2", "3", "4", "5", "6", "7", "8", "9">>
IsDigit(c)  == \E i \in 1..Len(DigitChars) : DigitChars[i] = c
DigitVal(c) == (CHOOSE i \in 1..Len(DigitChars) : DigitChars[i] = c) - 1

RECURSIVE DigitsVal(_)
DigitsVal(s) ==
    IF s = <<>> THEN 0
    ELSE 10 * DigitsVal(SubSeq(s, 1, Len(s) - 1)) + DigitVal(s[Len(s)])

\* strconv.Atoi on a string given as its characters.
Atoi(s) ==
    LET signed == Len(s) > 0 /\ s[1] \in {"-", "+"}
        body   == IF signed THEN Tail(s) ELSE s
        ok     == Len(body) > 0 /\ \A i \in 1..Len(body) : IsDigit(body[i])
    IN  [ok  |-> ok,
         val |-> IF ~ok THEN 0
                 ELSE IF signed /\ s[1] = "-" THEN 0 - DigitsVal(body) ELSE DigitsVal(body)]

\* Values of CONVEX_BACKUP_RETENTION; <<>> is unset or empty.
EnvValues == {<<>>, <<"0">>, <<"1">>, <<"-", "1">>, <<"x">>}

\* The same without the test r > 0.
RetentionUnchecked(env) ==
    IF env # <<>> /\ Atoi(env).ok THEN Atoi(env).val ELSE DefaultRetention

\* The retention count pruneBackups works with.
Retention(env) ==
    IF env # <<>> /\ Atoi(env).ok /\ Atoi(env).val > 0 THEN Atoi(env).val ELSE DefaultRetention

\* The retention counts an upgrade may prune with, one for each setting of the
\* environment variable.
Retentions == {Retention(env) : env \in EnvValues}

\* ------------------------------------------------------------- listing
\* Every subdirectory there is, whatever its meta.json holds.
ExistingDirs(bk) == {v \in DOMAIN bk : bk[v].ex}

\* The subdirectories whose meta.json parses, timestamp included.
ValidBackups(bk) == {v \in DOMAIN bk : bk[v].ex /\ bk[v].meta.st = "ok"}

\* They come in os.ReadDir order, sorted by name.
Listed(bk) == SelectSeq(DirOrder, LAMBDA v : v \in ValidBackups(bk))

\* The same insertion with the comparison turned round: oldest first.
RECURSIVE InsertOldest(_, _, _)
InsertOldest(bk, v, s) ==
    IF s = <<>> THEN <<v>>
    ELSE IF bk[v].meta.ts < bk[Head(s)].meta.ts THEN <<v>> \o s
    ELSE <<Head(s)>> \o InsertOldest(bk, v, Tail(s))

RECURSIVE InsertNewest(_, _, _)
InsertNewest(bk, v, s) ==
    IF s = <<>> THEN <<v>>
    ELSE IF bk[v].meta.ts > bk[Head(s)].meta.ts THEN <<v>> \o s
    ELSE <<Head(s)>> \o InsertNewest(bk, v, Tail(s))

\* sort.Slice by timestamp.After: for the few entries there are it is an
\* insertion sort, which leaves equal timestamps in name order.
RECURSIVE SortNewestFirst(_, _)
SortNewestFirst(bk, s) ==
    IF s = <<>> THEN <<>>
    ELSE InsertNewest(bk, s[Len(s)], SortNewestFirst(bk, SubSeq(s, 1, Len(s) - 1)))

\* The pruning left out.
keepEverything(bk, retention) == bk

\* pruneBackups() from the ReadDir on, retention being Retention(env): every
\* valid backup from index retention on is removed.
pruneBackups(bk, retention) ==
    LET sorted  == SortNewestFirst(bk, Listed(bk))
        removed == {sorted[i] : i \in (retention + 1)..Len(sorted)}
    IN  [v \in DOMAIN bk |-> IF v \in removed THEN NoBackup ELSE bk[v]]

\* The same with the last of the sorted list taken instead of the first.
findLeastRecentBackup(bk) ==
    LET sorted == SortNewestFirst(bk, Listed(bk))
    IN  IF sorted = <<>>
        THEN [ok |-> FALSE, dir |-> "", version |-> ""]
        ELSE [ok |-> TRUE, dir |-> sorted[Len(sorted)],
              version |-> bk[sorted[Len(sorted)]].meta.version]

\* findMostRecentBackup(): the first of the sorted list, or "no backups found".
findMostRecentBackup(bk) ==
    LET sorted == SortNewestFirst(bk, Listed(bk))
    IN  IF sorted = <<>>
        THEN [ok |-> FALSE, dir |-> "", version |-> ""]
        ELSE [ok |-> TRUE, dir |-> sorted[1], version |-> bk[sorted[1]].meta.version]

\* ------------------------------------------------------------- invocations
Init ==
    /\ binary = NoFile
    /\ manifest = NoFile
    /\ data = NoDir
    /\ backups = NoBackups
    /\ config = "absent"
    /\ unit = FALSE
    /\ enabled = FALSE
    /\ svc = NoFile
    /\ now = 0
    /\ faults = 0
    /\ last = NoLast
    /\ inflight = NoInflight

\* The invocation returns, having injected n failures and left the binary bi,
\* the manifest ma, the data directory da, the backups bk and the service sv,
\* at second t.
Done(bi, ma, da, bk, sv, t, n, l) ==
    /\ faults + n <= MaxFaults
    /\ faults' = faults + n
    /\ binary' = bi
    /\ manifest' = ma
    /\ data' = da
    /\ backups' = bk
    /\ svc' = sv
    /\ now' = t
    /\ last' = l
    /\ inflight' = inflight

\* The outcomes in S that the failure budget still allows after n failures.
Afford(S, n) == {o \in S : faults + n + Cost(o) <= MaxFaults}

\* How the pre-flight checks common to the commands come out.
Preflight == {"not_root", "no_systemd", "ok"}

\* An invocation without root or without systemctl, and one given an incomplete
\* bundle, are adverse conditions like an injected failure: they are tried
\* while the failure budget is not spent.
Environments == IF faults < MaxFaults THEN Preflight ELSE {"ok"}
Offered == IF faults < MaxFaults THEN Bundles ELSE {b \in Bundles : validateBundle(b).ok}

\* A return of the error after a systemctl stop.
StopThenRefuse(l) ==
    /\ Done(binary, manifest, data, backups, NoFile, now, 0, l)
    /\ UNCHANGED <<config, unit, enabled>>

\* The invocation returns the error l.err before it has done anything.
Refuse(l) ==
    /\ Done(binary, manifest, data, backups, svc, now, 0, l)
    /\ UNCHANGED <<config, unit, enabled>>

\* The command's own pre-flight check fails.
Refused(name, e) == Refuse([NoLast EXCEPT !.name = name, !.err = e])

\* checkRoot or checkSystemd fails: the command returns that error at once.
NotPermitted(name, pre) == Refuse([NoLast EXCEPT !.name = name, !.err = pre, !.pre = pre])

\* Neither --yes nor the answer "yes" is given: the command returns "cancelled".
Cancelled == UNCHANGED vars

\* The process of the last invocation has exited and a command can be given.
Continued == last = NoLast

\* The invocation's process exits (Execute returns, main calls os.Exit): what
\* it returned is with the caller, and nothing on the host remembers it.
Exit ==
    /\ last # NoLast
    /\ last' = NoLast
    /\ UNCHANGED <<binary, manifest, data, backups, config, unit, enabled, svc, now, faults,
                   inflight>>

\* ---- upgrade (runUpgrade)
\* A version gate that refuses every other version instead of the same one.
OtherVersionGate(current, new, force) == current # new /\ ~force

\* The place of a version among the versions bundles come in, oldest first.
VersionRank(v) == CHOOSE i \in 1..Len(VersionSeq) : VersionSeq[i] = v

\* A version gate that compares the versions and refuses an older one as well.
NewerOnlyGate(current, new, force) == VersionRank(new) <= VersionRank(current) /\ ~force

\* The version gate: the versions are the same string and --force is not given.
SameVersionGate(current, new, force) == current = new /\ ~force

\* A return of the error with no rollback at all.
NoCompensate(bk, dir, bi, da, ma, sv, t, n, l) == Done(bi, ma, da, bk, sv, t, n, l)

\* The same, reported as rolled back however performRollback returned.
CompensateSilently(bk, dir, bi, da, ma, sv, t, n, l) ==
    \E r \in Afford(performRollback(bk[dir], bi, da, ma, sv), n) :
        Done(r.binary, r.manifest, r.data, bk, r.svc, t, n + Cost(r), [l EXCEPT !.rb = "ok"])

\* The failed step's rollback: performRollback(backupDir), and the return.
Compensate(bk, dir, bi, da, ma, sv, t, n, l) ==
    \E r \in Afford(performRollback(bk[dir], bi, da, ma, sv), n) :
        Done(r.binary, r.manifest, r.data, bk, r.svc, t, n + Cost(r),
             [l EXCEPT !.rb = IF r.ok THEN "ok" ELSE "failed"])

\* A backup directory named after the version upgraded to.
backupDirOfTarget(current, new) == new

\* backupDir: the directory v<version> of the version installed.
backupDir(current, new) == current

Upgrade ==
    /\ UNCHANGED <<config, unit, enabled>>
    /\ \E pre \in Environments :
         IF pre # "ok" THEN NotPermitted("upgrade", pre)
         ELSE IF ~readManifest(manifest).ok THEN Refused("upgrade", "not_installed")
         ELSE
         \E bundle \in Offered :
         IF ~validateBundle(bundle).ok
         THEN Refuse([NoLast EXCEPT !.name = "upgrade", !.err = "invalid_bundle",
                                    !.arg = validateBundle(bundle).missing])
         ELSE
         LET cur == readManifest(manifest)
             L   == [NoLast EXCEPT !.name = "upgrade", !.new = bundle.version]
             dir == backupDir(cur.version, bundle.version)
         IN
         \* --force is read only when the versions are equal
         \E force \in IF cur.version = bundle.version THEN BOOLEAN ELSE {FALSE} :
         IF SameVersionGate(cur.version, bundle.version, force)
         THEN Refuse([L EXCEPT !.err = "same_version"])
         ELSE
         \E t \in now..Min(now + 1, MaxTime) :
         \E cb \in Afford(createBackup(backups[dir], binary, data, manifest,
                                       cur.version, bundle.version, t), 0) :
           LET bk == [backups EXCEPT ![dir] = cb.b]
               Lb == [L EXCEPT !.dir = dir]
           IN
           IF ~cb.ok
           THEN Done(binary, manifest, data, bk, svc, now, Cost(cb), [Lb EXCEPT !.err = "backup"])
           ELSE
           \E st \in Afford(stopService(svc), 0) :
             IF ~st.ok
             THEN Done(binary, manifest, data, bk, st.svc, t, Cost(st), [Lb EXCEPT !.err = "stop"])
             ELSE
             \E iv \in Afford(installNewVersion(bundle.version, binary, data, manifest), 0) :
               IF ~iv.ok
               THEN Compensate(bk, dir, iv.binary, iv.data, iv.manifest, st.svc, t,
                               Cost(iv), [Lb EXCEPT !.err = "swap"])
               ELSE
               \E sa \in Afford(startUnit(unit, st.svc, iv.binary), 0) :
                 IF ~sa.ok
                 THEN Compensate(bk, dir, iv.binary, iv.data, iv.manifest, sa.svc, t,
                                 Cost(sa), [Lb EXCEPT !.err = "start"])
                 ELSE
                 \E h \in waitForHealth(sa.svc) :
                   IF ~h.ok
                   THEN \* what the new version wrote while it was probed is still there
                        \E d \in ServiceMay(iv.data, sa.svc) :
                        \E s2 \in Afford(stopService(sa.svc), 0) :   \* its result is ignored
                          Compensate(bk, dir, iv.binary, d, iv.manifest, s2.svc, t,
                                     Cost(s2), [Lb EXCEPT !.err = "health"])
                   ELSE \E ret \in Retentions :
                          Done(iv.binary, iv.manifest, iv.data, pruneBackups(bk, ret), sa.svc, t, 0,
                               [Lb EXCEPT !.ret = ret])

\* ---- rollback (runRollback)
\* A lookup by the version the backup was taken for the upgrade to.
findByTargetVersion(bk, version) ==
    LET c == {v \in DOMAIN bk : bk[v].ex /\ bk[v].meta.to = version}
    IN  IF c = {}
        THEN [ok |-> FALSE, dir |-> version, version |-> version]
        ELSE [ok |-> TRUE, dir |-> CHOOSE v \in c : TRUE, version |-> version]

\* The backup of an explicit version: the directory v<version>, if os.Stat
\* finds it.
findByVersion(bk, version) == [ok |-> bk[version].ex, dir |-> version, version |-> version]

\* A failed rollback that falls back to another valid backup before it returns.
RestoreOlder(bk, bi, ma, da, sv, n, l) ==
    LET others == ValidBackups(bk) \ {l.dir}
    IN  IF others = {}
        THEN Done(bi, ma, da, bk, sv, now, n, l)
        ELSE \E v \in others : Done(bk[v].bin, bk[v].man, bk[v].data, bk, sv, now, n, l)

\* A step of rollback failed: the error is returned, everything left as it is.
ReturnError(bk, bi, ma, da, sv, n, l) == Done(bi, ma, da, bk, sv, now, n, l)

\* A rollback that removes the backup directory it has restored from.
consumedBackup(bk, dir) == [bk EXCEPT ![dir] = NoBackup]

\* The backups root when runRollback returns after restoreFromBackup(backupDir):
\* the directory was only read.
restoredBackup(bk, dir) == bk

Rollback ==
    /\ UNCHANGED <<config, unit, enabled>>
    /\ \E pre \in Environments :
         IF pre # "ok" THEN NotPermitted("rollback", pre)
         ELSE
         \E arg \in Versions \cup {""} :
         LET found == IF arg # ""
                      THEN findByVersion(backups, arg)
                      ELSE findMostRecentBackup(backups)
             L0    == [NoLast EXCEPT !.name = "rollback", !.arg = arg, !.dir = found.dir]
             L     == [L0 EXCEPT !.had = data.db]
         IN
         IF ~found.ok
         THEN Refuse([L0 EXCEPT !.err = IF arg # "" THEN "not_found" ELSE "no_backups"])
         ELSE
         \E st \in Afford(stopService(svc), 0) :             \* its result is ignored
         \E r \in Afford(restoreFromBackup(backups[found.dir], binary, data, manifest, st.svc),
                        Cost(st)) :
           IF ~r.ok
           THEN ReturnError(restoredBackup(backups, found.dir), r.binary, r.manifest, r.data,
                            st.svc, Cost(st) + Cost(r), [L EXCEPT !.err = "restore"])
           ELSE
           \E sa \in Afford(startUnit(unit, st.svc, r.binary), Cost(st)) :
             IF ~sa.ok
             THEN ReturnError(restoredBackup(backups, found.dir), r.binary, r.manifest, r.data,
                              sa.svc, Cost(st) + Cost(sa), [L EXCEPT !.err = "start"])
             ELSE
             \E h \in waitForHealth(sa.svc) :
               IF ~h.ok
               THEN ReturnError(restoredBackup(backups, found.dir), r.binary, r.manifest, r.data,
                                sa.svc, Cost(st), [L EXCEPT !.err = "health"])
               ELSE Done(r.binary, r.manifest, r.data, restoredBackup(backups, found.dir),
                         sa.svc, now, Cost(st), L)

\* ---- install (runInstall)
ConfigSeq == <<"absent", "dir", "key", "creds", "full">>
ConfigRank(c) == CHOOSE i \in 1..Len(ConfigSeq) : ConfigSeq[i] = c
ConfigAtLeast(c, d) == IF ConfigRank(c) >= ConfigRank(d) THEN c ELSE d

\* checkNotInstalled: os.Stat finds no manifest file, whatever one would hold.
checkNotInstalled == manifest = NoFile

\* An install that copies the manifest before anything else and then either
\* fails at the assets or goes on to the end.
manifestFirst(version) ==
    {[ok |-> FALSE, err |-> "assets", binary |-> binary, data |-> data, config |-> config,
      unit |-> unit, manifest |-> version, fault |-> TRUE],
     [ok |-> TRUE, err |-> "none", binary |-> version,
      data |-> [data EXCEPT !.ex = TRUE, !.storage = TRUE, !.db = Seed], config |-> "full",
      unit |-> TRUE, manifest |-> version, fault |-> FALSE]}

\* createDirectories up to the manifest copy: every file install writes before
\* it starts the service, in order; err names the step that failed.
InstallFiles(version) ==
    LET d1      == [data EXCEPT !.ex = TRUE, !.storage = TRUE]
        c1      == ConfigAtLeast(config, "dir")
        binOuts == copyBinary(version, binary, svc)
        dbOuts  == copyFile(Seed, d1.db)
        d2      == [d1 EXCEPT !.db = Seed]
        manOuts == copyFile(version, manifest)
        out(e, bi, da, co, un, ma, f) ==
            [ok |-> e = "none", err |-> e, binary |-> bi, data |-> da, config |-> co,
             unit |-> un, manifest |-> ma, fault |-> f]
        binOK   == \E o \in binOuts : o.ok
    IN  {out("dirs", binary, data, config, unit, manifest, TRUE)}
        \cup {out("assets", o.dst, d1, c1, unit, manifest, o.fault) : o \in {x \in binOuts : ~x.ok}}
        \cup (IF ~binOK THEN {} ELSE
        {out("assets", version, d1, c1, unit, manifest, TRUE)}                         \* os.Chmod
        \cup {out("assets", version, [d1 EXCEPT !.db = o.dst], c1, unit, manifest, o.fault) :
                o \in {x \in dbOuts : ~x.ok}}
        \cup {out("creds", version, d2, c1, unit, manifest, TRUE),                     \* admin.key
              out("creds", version, d2, ConfigAtLeast(config, "key"), unit, manifest, TRUE),
              out("env", version, d2, ConfigAtLeast(config, "creds"), unit, manifest, TRUE),
              out("unit", version, d2, "full", unit, manifest, TRUE),                  \* the unit file
              out("unit", version, d2, "full", TRUE, manifest, TRUE)}                  \* daemon-reload
        \cup {out(IF o.ok THEN "none" ELSE "manifest", version, d2, "full", TRUE, o.dst, o.fault) :
                o \in manOuts})

\* The start alone, the unit left disabled.
startWithoutEnable(hasUnit, isEnabled, running, bin) ==
    {[ok |-> s.ok, enabled |-> isEnabled, svc |-> s.svc, fault |-> s.fault] :
       s \in startUnit(hasUnit, running, bin)}

\* startService: systemctl enable, then systemctl start.
startService(hasUnit, isEnabled, running, bin) ==
    {[ok |-> FALSE, enabled |-> isEnabled, svc |-> running, fault |-> TRUE]}
    \cup {[ok |-> s.ok, enabled |-> TRUE, svc |-> s.svc, fault |-> s.fault] :
            s \in startUnit(hasUnit, running, bin)}

\* An error return that first takes the manifest away again.
removedOnError(ma) == NoFile

\* What runInstall leaves of the manifest it has written when a later step
\* fails: it returns the error and removes nothing.
leftOnError(ma) == ma

Install ==
    \E pre \in Environments :
      IF pre # "ok" THEN NotPermitted("install", pre)
      ELSE IF ~checkNotInstalled THEN Refused("install", "already_installed")
      ELSE
      \E bundle \in Offered :
      LET L == [NoLast EXCEPT !.name = "install", !.new = bundle.version] IN
      IF ~validateBundle(bundle).ok
      THEN Refuse([NoLast EXCEPT !.name = "install", !.err = "invalid_bundle",
                                 !.arg = validateBundle(bundle).missing])
      ELSE
      \E f \in Afford(InstallFiles(bundle.version), 0) :
        /\ config' = f.config
        /\ unit' = f.unit
        /\ IF ~f.ok
           THEN /\ Done(f.binary, f.manifest, f.data, backups, svc, now, Cost(f),
                        [L EXCEPT !.err = f.err])
                /\ enabled' = enabled
           ELSE \E sa \in Afford(startService(f.unit, enabled, svc, f.binary), 0) :
                  /\ enabled' = sa.enabled
                  /\ IF ~sa.ok
                     THEN Done(f.binary, leftOnError(f.manifest), f.data, backups, sa.svc, now,
                               Cost(sa), [L EXCEPT !.err = "start"])
                     ELSE \E h \in waitForHealth(sa.svc) :
                            IF h.ok
                            THEN Done(f.binary, f.manifest, f.data, backups, sa.svc, now, 0, L)
                            ELSE Done(f.binary, leftOnError(f.manifest), f.data, backups, sa.svc,
                                      now, 0, [L EXCEPT !.err = "health"])

\* ---- reset (runReset)
\* A reset that puts the bundle's convex.db back.
reseedData(dat) ==
    {[ok |-> TRUE, err |-> "none", data |-> [ex |-> TRUE, db |-> Seed, storage |-> TRUE],
      fault |-> FALSE]}

\* The entries of the data directory dat are read and removed one by one, a
\* failed removal only printed; then data/storage is made again.
resetData(dat) ==
    LET wiped == [ex |-> TRUE, db |-> NoFile, storage |-> TRUE]
        out(e, d, f) == [ok |-> e = "none", err |-> e, data |-> d, fault |-> f]
    IN  {out("none", wiped, FALSE),
         out("readdir", dat, TRUE),                                          \* os.ReadDir fails
         out("mkdir", [dat EXCEPT !.db = NoFile, !.storage = FALSE], TRUE)}  \* os.MkdirAll fails
        \cup (IF dat.ex /\ dat.db # NoFile
              THEN {out("none", [wiped EXCEPT !.db = dat.db], TRUE)}         \* os.RemoveAll fails
              ELSE {})

Reset ==
    /\ UNCHANGED <<config, unit, enabled>>
    /\ \E pre \in Environments, confirmed \in BOOLEAN :
         \* reset has no checkSystemd: without systemctl it goes on to its stop
         LET L == [NoLast EXCEPT !.name = "reset", !.pre = pre] IN
         IF pre = "not_root" THEN NotPermitted("reset", pre)
         ELSE IF manifest = NoFile THEN Refused("reset", "not_installed")      \* os.Stat
         ELSE IF ~confirmed THEN Cancelled
         ELSE
         \E st \in Afford(systemctl(pre, stopService(svc), svc), 0) :
           IF ~st.ok
           THEN Done(binary, manifest, data, backups, st.svc, now, Cost(st), [L EXCEPT !.err = "stop"])
           ELSE
           \E d \in Afford(resetData(data), 0) :
             IF ~d.ok
             THEN Done(binary, manifest, d.data, backups, st.svc, now, Cost(d),
                       [L EXCEPT !.err = d.err])
             ELSE
             \E sa \in Afford(startUnit(unit, st.svc, binary), Cost(d)) :
               Done(binary, manifest, d.data, backups, sa.svc, now, Cost(d) + Cost(sa),
                    [L EXCEPT !.err = IF sa.ok THEN "none" ELSE "start"])

\* ---- uninstall (runUninstall)
UninstallOrder == <<"stop", "disable", "binary", "unit", "dataroot", "configroot">>
UninstallSteps == {UninstallOrder[i] : i \in 1..Len(UninstallOrder)}

\* The steps run if the first failure ended the command.
AttemptedUntilFailure(failed) ==
    {UninstallOrder[i] : i \in {j \in 1..Len(UninstallOrder) :
                                   \A k \in 1..(j - 1) : UninstallOrder[k] \notin failed}}

\* The steps runUninstall runs when those in failed fail: a failed stop or
\* disable is not looked at and a failed removal is printed, none returns.
Attempted(failed) == UninstallSteps

\* The sets of steps that may fail in one run: those that fail for want of
\* systemctl, and as many others as the failure budget allows.
FailureSets ==
    [forced \in {{}, {"stop", "disable"}}, budget \in 0..MaxFaults |->
       {f \in SUBSET UninstallSteps : forced \subseteq f /\ Cardinality(f \ forced) <= budget}]

\* Every step is tried; failed is the set of those that fail.
Uninstall ==
    \E pre \in Environments, confirmed \in BOOLEAN :
      \* uninstall has no checkSystemd: without systemctl its stop and disable fail
      LET forced == IF pre = "no_systemd" THEN {"stop", "disable"} ELSE {} IN
      IF pre = "not_root" THEN NotPermitted("uninstall", pre)
      ELSE IF ~confirmed THEN Cancelled
      ELSE
      \E failed \in FailureSets[forced, MaxFaults - faults] :
        LET done == Attempted(failed) \ failed IN
        /\ enabled' = IF "disable" \in done THEN FALSE ELSE enabled
        /\ unit' = IF "unit" \in done THEN FALSE ELSE unit
        /\ config' = IF "configroot" \in done THEN "absent" ELSE config
        /\ Done(IF "binary" \in done THEN NoFile ELSE binary,
                IF "dataroot" \in done THEN NoFile ELSE manifest,
                IF "dataroot" \in done THEN NoDir ELSE data,
                IF "dataroot" \in done THEN NoBackups ELSE backups,
                IF "stop" \in done /\ unit THEN NoFile ELSE svc,
                now, Cardinality(failed \ forced),
                [NoLast EXCEPT !.name = "uninstall", !.pre = pre])

\* ---- the service
\* Between invocations the running backend writes its database.
ServiceWrite ==
    /\ \E d \in ServiceMay(data, svc) \ {data} :
         data' = d
    /\ last' = NoLast
    /\ UNCHANGED <<binary, manifest, backups, config, unit, enabled, svc, now, faults,
                   inflight>>

Next ==
    \/ Continued /\ Install
    \/ Continued /\ Upgrade
    \/ Continued /\ Rollback
    \/ Continued /\ Reset
    \/ Continued /\ Uninstall
    \/ Continued /\ ServiceWrite
    \/ Exit

Spec == Init /\ [][Next]_vars

\* ------------------------------------------------------------- pruning alone
\* pruneBackups() on a backups root that holds, under each name, nothing, a
\* directory whose meta.json does not parse, or a complete backup of any second.
PruneDirs == {DirOrder[i] : i \in 1..Len(DirOrder)}
PruneEnvValues == EnvValues \cup {<<"2">>, <<"+", "2">>, <<"1", "0">>, <<"2", "x">>, <<"0", "2">>}

BackupOf(v, t) ==
    [ex |-> TRUE, bin |-> v, data |-> [ex |-> TRUE, db |-> Seed, storage |-> TRUE], man |-> v,
     meta |-> [st |-> "ok", version |-> v, ts |-> t, reason |-> "upgrade", from |-> v, to |-> v]]

DirStates(v) ==
    {NoBackup, [BackupOf(v, 0) EXCEPT !.meta = TornMeta]} \cup {BackupOf(v, t) : t \in 0..MaxStamp}

InitPrune ==
    /\ backups \in {bk \in [PruneDirs -> UNION {DirStates(v) : v \in PruneDirs}] :
                      \A v \in PruneDirs : bk[v] \in DirStates(v)}
    /\ binary = DirOrder[1]
    /\ manifest = DirOrder[1]
    /\ data = [ex |-> TRUE, db |-> Seed, storage |-> TRUE]
    /\ config = "full"
    /\ unit = TRUE
    /\ enabled = TRUE
    /\ svc = DirOrder[1]
    /\ now = MaxStamp
    /\ faults = 0
    /\ last = NoLast
    /\ inflight = NoInflight

Prune ==
    /\ \E env \in PruneEnvValues :
         /\ backups' = pruneBackups(backups, Retention(env))
         /\ last' = [NoLast EXCEPT !.name = "prune", !.arg = env, !.ret = Retention(env)]
    /\ UNCHANGED <<binary, manifest, data, config, unit, enabled, svc, now, faults, inflight>>

NextPrune == Prune

SpecPrune == InitPrune /\ [][NextPrune]_vars

\* ------------------------------------------------------------- two at once
\* Invocations started while another is under way.  Each runs the steps of its
\* command in the order of the source, one filesystem or systemctl call (or one
\* copyDir, one RemoveAll) at a time, and any step of another invocation may
\* come in between: no command takes a lock.  No call fails here except those
\* that must (a missing source, a missing unit, a busy executable); last
\* records whether two invocations have been under way at once.
MaxProcs == 2
Procs == 1..MaxProcs

Idle == [cmd |-> "none", pc |-> "idle", new |-> "", force |-> FALSE, cur |-> "", dir |-> "",
         err |-> "none", rb |-> "none"]

Active(q) == inflight[q].pc \notin {"idle", "done"}

\* The outcome of a call that no I/O error befalls.
Sure(outs) == CHOOSE o \in outs : ~o.fault

LiveData == [ex |-> TRUE, db |-> Seed, storage |-> TRUE]

\* The hosts invocations are started on: a fresh one, one with the first
\* version installed, one upgraded from the first version to the last, and one
\* half uninstalled with the service still running.
InitRace ==
    LET v1 == VersionSeq[1]
        v2 == VersionSeq[Len(VersionSeq)]
        installed(v, bk) ==
            /\ binary = v
            /\ manifest = v
            /\ data = LiveData
            /\ backups = bk
            /\ config = "full"
            /\ unit = TRUE
            /\ enabled = TRUE
            /\ svc = v
    IN  /\ \/ /\ binary = NoFile
              /\ manifest = NoFile
              /\ data = NoDir
              /\ backups = NoBackups
              /\ config = "absent"
              /\ unit = FALSE
              /\ enabled = FALSE
              /\ svc = NoFile
           \/ installed(v1, NoBackups)
           \/ installed(v2, [NoBackups EXCEPT ![v1] = [BackupOf(v1, 0) EXCEPT !.meta.to = v2]])
           \* an uninstall has removed binary, unit and configuration, but could
           \* neither stop the service nor remove /var/lib/convex
           \/ /\ binary = NoFile
              /\ manifest = v1
              /\ data = LiveData
              /\ backups = [NoBackups EXCEPT ![v1] = BackupOf(v1, 0)]
              /\ config = "absent"
              /\ unit = FALSE
              /\ enabled = TRUE
              /\ svc = v1
        /\ now = 0
        /\ faults = 0
        /\ last = NoLast
        /\ inflight = [q \in Procs |-> Idle]

\* What a step leaves on disk and of the service.
Files(bi, ma, da, bk, co, un, en, sv) ==
    /\ binary' = bi
    /\ manifest' = ma
    /\ data' = da
    /\ backups' = bk
    /\ config' = co
    /\ unit' = un
    /\ enabled' = en
    /\ svc' = sv
    /\ UNCHANGED <<now, faults, last>>

SameFiles == Files(binary, manifest, data, backups, config, unit, enabled, svc)

Go(p, pc) == inflight' = [inflight EXCEPT ![p].pc = pc]
Fin(p, e) == inflight' = [inflight EXCEPT ![p].pc = "done", ![p].err = e]
GoIf(p, ok, pc, e) == IF ok THEN Go(p, pc) ELSE Fin(p, e)

\* The invocation p is started with: the command, its bundle and --force.
Started(p, c, v, f) ==
    [inflight EXCEPT ![p] = [Idle EXCEPT !.cmd = c, !.new = v, !.force = f,
                                         !.pc = CASE c = "install" -> "check"
                                                  [] c = "upgrade" -> "read"
                                                  [] c = "rollback" -> "find"]]

\* A start that waits until no other invocation is under way.
BeginUnderLock(p) ==
    /\ inflight[p].pc = "idle"
    /\ \A q \in Procs \ {p} : ~Active(q)
    /\ \E c \in {"install", "upgrade", "rollback"}, v \in Versions, f \in BOOLEAN :
         /\ c = "rollback" => v = VersionSeq[1] /\ ~f
         /\ c = "install" => ~f
         /\ inflight' = Started(p, c, v, f)
    /\ UNCHANGED <<binary, manifest, data, backups, config, unit, enabled, svc, now, faults, last>>

\* An invocation is started, whatever else is under way: the commands open no
\* lock file and ask for no lock.
Begin(p) ==
    /\ inflight[p].pc = "idle"
    /\ \E c \in {"install", "upgrade", "rollback"}, v \in Versions, f \in BOOLEAN :
         /\ c = "rollback" => v = VersionSeq[1] /\ ~f
         /\ c = "install" => ~f
         /\ inflight' = Started(p, c, v, f)
    /\ last' = IF \E q \in Procs \ {p} : Active(q) THEN [last EXCEPT !.name = "overlap"] ELSE last
    /\ UNCHANGED <<binary, manifest, data, backups, config, unit, enabled, svc, now, faults>>

\* runInstall, step by step.
InstallStep(p) ==
    LET me == inflight[p] IN
    /\ me.cmd = "install"
    /\ Active(p)
    /\ CASE me.pc = "check" ->
              /\ SameFiles
              /\ GoIf(p, checkNotInstalled, "dirs", "already_installed")
         [] me.pc = "dirs" ->
              /\ Files(binary, manifest, [data EXCEPT !.ex = TRUE, !.storage = TRUE], backups,
                       ConfigAtLeast(config, "dir"), unit, enabled, svc)
              /\ Go(p, "binary")
         [] me.pc = "binary" ->
              LET o == Sure(copyBinary(me.new, binary, svc)) IN
              /\ Files(o.dst, manifest, data, backups, config, unit, enabled, svc)
              /\ GoIf(p, o.ok, "db", "assets")
         [] me.pc = "db" ->
              /\ Files(binary, manifest, [data EXCEPT !.ex = TRUE, !.db = Seed], backups, config,
                       unit, enabled, svc)
              /\ Go(p, "config")
         [] me.pc = "config" ->
              /\ Files(binary, manifest, data, backups, "full", TRUE, enabled, svc)
              /\ Go(p, "manifest")
         [] me.pc = "manifest" ->
              /\ Files(binary, me.new, data, backups, config, unit, enabled, svc)
              /\ Go(p, "start")
         [] me.pc = "start" ->
              LET o == Sure(startUnit(unit, svc, binary)) IN
              /\ Files(binary, manifest, data, backups, config, unit, TRUE, o.svc)
              /\ GoIf(p, o.ok, "health", "start")
         [] me.pc = "health" ->
              /\ SameFiles
              /\ \E h \in waitForHealth(svc) : Fin(p, IF h.ok THEN "none" ELSE "health")
         [] OTHER -> FALSE

\* runUpgrade up to its return or its call of performRollback, step by step.
UpgradeStep(p) ==
    LET me == inflight[p]
        b  == backups[me.dir]
        put(nb) == Files(binary, manifest, data, [backups EXCEPT ![me.dir] = nb], config, unit,
                         enabled, svc)
        fail(e) == inflight' = [inflight EXCEPT ![p].pc = "r_binary", ![p].err = e]
    IN
    /\ me.cmd = "upgrade"
    /\ Active(p)
    /\ CASE me.pc = "read" ->
              LET cur == readManifest(manifest) IN
              /\ SameFiles
              /\ IF ~cur.ok THEN Fin(p, "not_installed")
                 ELSE IF SameVersionGate(cur.version, me.new, me.force) THEN Fin(p, "same_version")
                 ELSE inflight' = [inflight EXCEPT ![p].cur = cur.version, ![p].dir = cur.version,
                                                   ![p].pc = "b_binary"]
         [] me.pc = "b_binary" ->
              LET o == Sure(copyFile(binary, b.bin)) IN
              /\ put([b EXCEPT !.ex = TRUE, !.bin = o.dst])
              /\ GoIf(p, o.ok, "b_data", "backup")
         [] me.pc = "b_data" ->
              LET o == Sure(copyDir(data, b.data)) IN
              /\ put([b EXCEPT !.data = o.dst])
              /\ GoIf(p, o.ok, "b_manifest", "backup")
         [] me.pc = "b_manifest" ->
              LET o == Sure(copyFile(manifest, b.man)) IN
              /\ put([b EXCEPT !.man = o.dst])
              /\ GoIf(p, o.ok, "b_meta", "backup")
         [] me.pc = "b_meta" ->
              /\ put([b EXCEPT !.ex = TRUE,
                               !.meta = [st |-> "ok", version |-> me.cur, ts |-> now,
                                         reason |-> "upgrade", from |-> me.cur, to |-> me.new]])
              /\ Go(p, "stop")
         [] me.pc = "stop" ->
              LET o == Sure(stopService(svc)) IN
              /\ Files(binary, manifest, data, backups, config, unit, enabled, o.svc)
              /\ GoIf(p, o.ok, "s_binary", "stop")
         [] me.pc = "s_binary" ->
              LET o == Sure(copyBinary(me.new, binary, svc)) IN
              /\ Files(o.dst, manifest, data, backups, config, unit, enabled, svc)
              /\ IF o.ok THEN Go(p, "s_manifest") ELSE fail("swap")
         [] me.pc = "s_manifest" ->
              /\ Files(binary, me.new, data, backups, config, unit, enabled, svc)
              /\ Go(p, "start")
         [] me.pc = "start" ->
              LET o == Sure(startUnit(unit, svc, binary)) IN
              /\ Files(binary, manifest, data, backups, config, unit, enabled, o.svc)
              /\ IF o.ok THEN Go(p, "health") ELSE fail("start")
         [] me.pc = "health" ->
              /\ SameFiles
              /\ \E h \in waitForHealth(svc) :
                   IF h.ok THEN Go(p, "prune")
                   ELSE inflight' = [inflight EXCEPT ![p].pc = "h_stop", ![p].err = "health"]
         [] me.pc = "h_stop" ->
              /\ Files(binary, manifest, data, backups, config, unit, enabled,
                       Sure(stopService(svc)).svc)
              /\ Go(p, "r_binary")
         [] me.pc = "prune" ->
              /\ Files(binary, manifest, data, pruneBackups(backups, DefaultRetention), config,
                       unit, enabled, svc)
              /\ Fin(p, "none")
         [] OTHER -> FALSE

\* performRollback and restoreFromBackup from the directory chosen, step by
\* step, and the return of upgrade after it.
RestoreStep(p) ==
    LET me == inflight[p]
        b  == backups[me.dir]
        failed == inflight' = [inflight EXCEPT ![p].pc = "done",
                                               ![p].rb = IF me.cmd = "upgrade" THEN "failed" ELSE "none",
                                               ![p].err = IF me.cmd = "upgrade" THEN me.err
                                                          ELSE "restore"]
    IN
    /\ me.cmd \in {"upgrade", "rollback"}
    /\ CASE me.pc = "r_binary" ->
              LET o == Sure(copyBinary(b.bin, binary, svc)) IN
              /\ Files(o.dst, manifest, data, backups, config, unit, enabled, svc)
              /\ IF o.ok THEN Go(p, "r_rm") ELSE failed
         [] me.pc = "r_rm" ->
              /\ Files(binary, manifest, NoDir, backups, config, unit, enabled, svc)
              /\ Go(p, "r_data")
         [] me.pc = "r_data" ->
              LET o == Sure(copyDir(b.data, data)) IN
              /\ Files(binary, manifest, o.dst, backups, config, unit, enabled, svc)
              /\ IF o.ok THEN Go(p, "r_manifest") ELSE failed
         [] me.pc = "r_manifest" ->
              LET o == Sure(copyFile(b.man, manifest)) IN
              /\ Files(binary, o.dst, data, backups, config, unit, enabled, svc)
              /\ IF o.ok THEN Go(p, "r_start") ELSE failed
         [] me.pc = "r_start" ->
              LET o == Sure(startUnit(unit, svc, binary)) IN
              /\ Files(binary, manifest, data, backups, config, unit, enabled, o.svc)
              /\ IF me.cmd = "upgrade"
                 THEN inflight' = [inflight EXCEPT ![p].pc = "done",
                                                   ![p].rb = IF o.ok THEN "ok" ELSE "failed"]
                 ELSE GoIf(p, o.ok, "k_health", "start")
         [] OTHER -> FALSE

\* runRollback around its restore, step by step.
RollbackStep(p) ==
    LET me == inflight[p] IN
    /\ me.cmd = "rollback"
    /\ CASE me.pc = "find" ->
              LET found == findMostRecentBackup(backups) IN
              /\ SameFiles
              /\ IF ~found.ok THEN Fin(p, "no_backups")
                 ELSE inflight' = [inflight EXCEPT ![p].dir = found.dir, ![p].pc = "k_stop"]
         [] me.pc = "k_stop" ->
              /\ Files(binary, manifest, data, backups, config, unit, enabled,
                       Sure(stopService(svc)).svc)
              /\ Go(p, "r_binary")
         [] me.pc = "k_health" ->
              /\ SameFiles
              /\ \E h \in waitForHealth(svc) : Fin(p, IF h.ok THEN "none" ELSE "health")
         [] OTHER -> FALSE

NextRace ==
    \/ \E p \in Procs : Begin(p)
    \/ \E p \in Procs : InstallStep(p)
    \/ \E p \in Procs : UpgradeStep(p)
    \/ \E p \in Procs : RestoreStep(p)
    \/ \E p \in Procs : RollbackStep(p)

SpecRace == InitRace /\ [][NextRace]_vars

HealthTimeoutRestoresAll ==
    [][last'.name = "upgrade" /\ last'.err = "health" /\ last'.rb = "ok" /\ faults' = 0 =>
         /\ manifest' = manifest
         /\ binary' = binary
         /\ data' = data
         /\ svc' # NoFile]_vars

\* C2, as stated: whatever step of upgrade fails from the backup on, the
\* compensating restore has been attempted when upgrade returns.
AnyFailureCompensated ==
    [][last'.name = "upgrade" /\ last'.err \in {"backup", "stop", "swap", "start", "health"} =>
         last'.rb # "none"]_vars

\* C2, as the code has it: performRollback runs exactly when the swap, the
\* start or the health gate failed, and when it returned nil the binary, the
\* data directory and the manifest are the copies in the backup directory and
\* the service runs if that binary is an executable; when the backup or the stop failed, upgrade returns with
\* no restore attempted, the binary, the data directory and the manifest as
\* they were.
LateFailureCompensated ==
    [][last'.name = "upgrade" =>
         /\ last'.rb # "none" <=> last'.err \in {"swap", "start", "health"}
         /\ last'.rb = "ok" =>
               /\ binary' = backups'[last'.dir].bin
               /\ data' = backups'[last'.dir].data
               /\ manifest' = backups'[last'.dir].man
               /\ binary' \in Versions => svc' # NoFile
         /\ last'.err \in {"backup", "stop"} =>
               /\ binary' = binary
               /\ data' = data
               /\ manifest' = manifest]_vars

\* The swap failed and the restore that followed succeeded.
LateFailureCompensatedWitness ==
    /\ last.name = "upgrade"
    /\ last.err = "swap"
    /\ last.rb = "ok"
    /\ binary = backups[last.dir].bin
    /\ svc # NoFile

\* C3: the service never runs from a binary other than the one on disk, nor
\* beside a manifest of another version.  Stated step by step: an install, an
\* upgrade or a rollback begun where that holds returns where it holds.
Consistent(running, bin, man) == running # NoFile => running = bin /\ man = bin

RunningStaysConsistent ==
    [][last'.name \in {"install", "upgrade", "rollback"} /\ Consistent(svc, binary, manifest) =>
         Consistent(svc', binary', manifest')]_vars

\* C4: a backup directory whose meta.json is written changes in no step,
\* except that the pruning of a successful upgrade, or uninstall, may delete it.
\* Stated for the behaviours in which no I/O or supervisor call has failed.
BackupsImmutable ==
    [][\A v \in Versions :
         faults' = 0 /\ backups[v].ex /\ backups[v].meta.st = "ok" =>
           \/ backups'[v] = backups[v]
           \/ /\ backups'[v] = NoBackup
              /\ \/ last'.name = "uninstall"
                 \/ last'.name = "upgrade" /\ last'.err = "none"]_vars

\* C5: in every state with a readable manifest, whatever the backup directory
\* of the installed version holds: a createBackup that returns nil followed by
\* a restoreFromBackup that returns nil, over any binary, data directory and
\* manifest, gives back the binary, the data directory and the manifest the
\* backup was taken of.  Stated for the states reached without any I/O or
\* supervisor call having failed.
RoundTrip ==
    LET cur == readManifest(manifest) IN
    cur.ok /\ faults = 0 =>
      \A w \in Versions :
        \A cb \in createBackup(backups[cur.version], binary, data, manifest, cur.version, w, now) :
          cb.ok =>
            \A bi \in FileVals, ma \in FileVals, da \in {data, NoDir} :
              \A r \in restoreFromBackup(cb.b, bi, da, ma, NoFile) :
                r.ok => r.binary = binary /\ r.data = data /\ r.manifest = manifest

\* C6: when an upgrade from v to w has returned nil, the directory of v holds
\* a valid backup with version v, fromVersion v, toVersion w and reason
\* "upgrade", stamped by this upgrade, and every other valid backup was there,
\* the same, before.  Stated for the behaviours in which no I/O or supervisor
\* call has failed.
SuccessfulUpgradeAddsOneBackup ==
    [][last'.name = "upgrade" /\ last'.err = "none" /\ faults' = 0 =>
         LET v == readManifest(manifest).version
             w == last'.new
         IN  /\ v \in ValidBackups(backups')
             /\ backups'[v].meta = [st |-> "ok", version |-> v, ts |-> now', reason |-> "upgrade",
                                    from |-> v, to |-> w]
             /\ \A d \in ValidBackups(backups') \ {v} :
                   d \in ValidBackups(backups) /\ backups'[d] = backups[d]]_vars

\* C8: an upgrade that returns an error has deleted no backup directory, and
\* every backup that was valid before it is valid after it.
FailedUpgradeKeepsRollbackPoints ==
    [][last'.name = "upgrade" /\ last'.err # "none" =>
         /\ \A v \in Versions : backups[v].ex => backups'[v].ex
         /\ ValidBackups(backups) \subseteq ValidBackups(backups')]_vars

\* C9: an upgrade to the installed version without --force returns the
\* "already at version" error and has changed nothing; where it has returned
\* so, the manifest still holds that version, so the same invocation is
\* refused again.
SameVersionChangesNothing ==
    /\ [][last'.name = "upgrade" /\ last'.err = "same_version" =>
            /\ readManifest(manifest).version = last'.new
            /\ UNCHANGED <<binary, manifest, data, backups, config, unit, enabled, svc, now,
                           faults>>]_vars
    /\ [](last.name = "upgrade" /\ last.err = "same_version" =>
            readManifest(manifest).ok /\ readManifest(manifest).version = last.new)

\* The refusal, with the service running and a backup on disk.
SameVersionChangesNothingWitness ==
    /\ last.name = "upgrade"
    /\ last.err = "same_version"
    /\ svc = last.new
    /\ ValidBackups(backups) # {}

\* C10: rollback without an argument, run as root with systemctl there, uses
\* a valid backup no other valid backup is newer than, and when it returns nil
\* the binary, the data directory and the manifest are that backup's copies and
\* the service runs.
RollbackTakesNewest ==
    [][last'.name = "rollback" /\ last'.pre = "ok" /\ last'.arg = ""
       /\ last'.err # "no_backups" =>
         LET d == last'.dir IN
         /\ d \in ValidBackups(backups)
         /\ \A v \in ValidBackups(backups) : backups[v].meta.ts <= backups[d].meta.ts
         /\ last'.err = "none" =>
               /\ binary' = backups[d].bin
               /\ data' = backups[d].data
               /\ manifest' = backups[d].man
               /\ svc' # NoFile]_vars

\* Two valid backups of different seconds were there and the rollback took
\* the later one.
RollbackTakesNewestWitness ==
    /\ last.name = "rollback"
    /\ last.arg = ""
    /\ last.err = "none"
    /\ \E v \in ValidBackups(backups) : backups[v].meta.ts < backups[last.dir].meta.ts
    /\ manifest = backups[last.dir].man

\* C11: a rollback past its root and systemctl checks, without an argument
\* when no subdirectory of the backups root has a meta.json that parses,
\* returns "no backups found"; a rollback to
\* a version whose directory does not exist returns "not found"; either way the
\* service is not stopped and the binary, the data directory, the manifest and
\* everything else are as before.
RollbackWithoutBackupChangesNothing ==
    [][/\ last'.name = "rollback"
       /\ last'.pre = "ok"
       /\ \/ last'.arg = "" /\ \A v \in Versions : ~(backups[v].ex /\ backups[v].meta.st = "ok")
          \/ last'.arg \in Versions /\ ~backups[last'.arg].ex
       => /\ last'.err = IF last'.arg = "" THEN "no_backups" ELSE "not_found"
          /\ UNCHANGED <<binary, manifest, data, backups, config, unit, enabled, svc, now,
                         faults>>]_vars

\* "no backups found" returned with the service running, beside a directory
\* whose meta.json does not parse.
RollbackWithoutBackupChangesNothingWitness ==
    /\ last.name = "rollback"
    /\ last.arg = ""
    /\ last.err = "no_backups"
    /\ svc \in Versions
    /\ \E v \in Versions : backups[v].ex /\ backups[v].meta.st # "ok"

\* C12: a backup directory that lacks its binary, its data directory, its
\* manifest or its meta.json is absent to rollback by version: the rollback
\* returns "not found", the service is not stopped and the binary, the data
\* directory and the manifest are as before.
PartlyWritten(b) ==
    b.ex /\ (b.bin = NoFile \/ ~b.data.ex \/ b.man = NoFile \/ b.meta.st = "absent")

PartialBackupIsAbsent ==
    [][/\ last'.name = "rollback"
       /\ last'.arg \in Versions
       /\ PartlyWritten(backups[last'.arg])
       => /\ last'.err = "not_found"
          /\ UNCHANGED <<binary, data, manifest, svc>>]_vars

\* C13: rollback to a version x uses the directory named for x and no other:
\* it returns "not found" exactly when that directory does not exist, whatever
\* backup was taken for an upgrade to x; a valid backup in that directory was
\* taken from x; and when the rollback returns nil the binary, the data
\* directory and the manifest are that directory's copies.
RollbackByVersionUsesSourceVersion ==
    [][last'.name = "rollback" /\ last'.arg \in Versions =>
         LET x == last'.arg IN
         /\ last'.dir = x
         /\ last'.err = "not_found" <=> ~backups[x].ex
         /\ backups[x].meta.st = "ok" => backups[x].meta.from = x /\ backups[x].meta.version = x
         /\ last'.err = "none" =>
               /\ binary' = backups[x].bin
               /\ data' = backups[x].data
               /\ manifest' = backups[x].man]_vars

\* After an upgrade from one version to another, rollback to the first has
\* returned nil; there is no directory named for the second.
RollbackByVersionUsesSourceVersionWitness ==
    /\ last.name = "rollback"
    /\ last.arg \in Versions
    /\ last.err = "none"
    /\ backups[last.arg].meta.st = "ok"
    /\ backups[last.arg].meta.to # last.arg
    /\ ~backups[backups[last.arg].meta.to].ex
    /\ manifest = last.arg

\* C14: an install of a complete bundle that returns nil began with no
\* manifest on disk and ends with the bundle's manifest and binary installed,
\* the bundle's convex.db and storage/ in the data directory, the environment
\* file and both credential files written, the unit file in place, and the
\* service enabled and running.
InstallYieldsInstalled ==
    [][last'.name = "install" /\ last'.err = "none" =>
         /\ manifest = NoFile
         /\ last'.new \in Versions
         /\ manifest' = last'.new
         /\ binary' = last'.new
         /\ data' = [ex |-> TRUE, db |-> Seed, storage |-> TRUE]
         /\ config' = "full"
         /\ unit'
         /\ enabled'
         /\ svc' # NoFile]_vars

\* An install has returned nil and the service runs the bundle's binary.
InstallYieldsInstalledWitness ==
    /\ last.name = "install"
    /\ last.err = "none"
    /\ manifest = last.new
    /\ svc = last.new
    /\ enabled
    /\ config = "full"

\* C15, as stated: an invocation that lacks root or systemctl, an install over
\* an existing manifest, an upgrade or a reset without one, and an upgrade to
\* the installed version without --force return an error and have created,
\* changed or removed no file and started, stopped or enabled nothing.
PreconditionFailureChangesNothing ==
    [][\/ last'.pre # "ok"
       \/ last'.err \in {"already_installed", "not_installed", "same_version"}
       => /\ last'.err # "none"
          /\ UNCHANGED <<binary, manifest, data, backups, config, unit, enabled, svc, now,
                         faults>>]_vars

\* C15, as the code has it: every command returns at once without root;
\* install, upgrade and rollback return at once without systemctl; install
\* returns "already installed" over any manifest file, upgrade "not installed"
\* without a readable manifest, reset "not installed" without a manifest file;
\* each of these returns, and the same-version refusal, leaves every file and the
\* service as they were.  reset without systemctl fails at its stop, nothing
\* changed; uninstall asks for root only.
RefusalChangesNothing ==
    [][/\ last'.err \in {"not_root", "no_systemd", "already_installed", "not_installed",
                         "same_version"}
          => UNCHANGED <<binary, manifest, data, backups, config, unit, enabled, svc, now,
                         faults>>
       /\ last'.pre = "not_root" => last'.err = "not_root"
       /\ last'.pre = "no_systemd" /\ last'.name \in {"install", "upgrade", "rollback"}
          => last'.err = "no_systemd"
       /\ last'.pre = "no_systemd" /\ last'.name = "reset"
          => /\ last'.err = "stop"
             /\ UNCHANGED <<binary, manifest, data, backups, config, unit, enabled, svc, now,
                            faults>>
       /\ last'.pre = "ok" /\ last'.name = "install" /\ manifest # NoFile
          => last'.err = "already_installed"
       /\ last'.pre = "ok" /\ last'.name = "upgrade" /\ ~readManifest(manifest).ok
          => last'.err = "not_installed"
       /\ last'.pre # "not_root" /\ last'.name = "reset" /\ manifest = NoFile
          => last'.err = "not_installed"]_vars

\* An install refused as already installed, with the service running and a
\* backup on disk.
RefusalChangesNothingWitness ==
    /\ last.name = "install"
    /\ last.err = "already_installed"
    /\ svc \in Versions
    /\ ValidBackups(backups) # {}

\* C16: a reset, however it returns, leaves the manifest, /etc/convex, the
\* binary, the unit file and every backup directory as they were, and in the
\* data directory it only removes: convex.db is as before or gone.
ResetTouchesDataOnly ==
    [][last'.name = "reset" =>
         /\ UNCHANGED <<manifest, config, binary, unit, enabled, backups>>
         /\ data'.db \in {data.db, NoFile}]_vars

\* A reset has returned nil: convex.db is gone, and the manifest, the
\* configuration and a backup holding a convex.db are there.
ResetTouchesDataOnlyWitness ==
    /\ last.name = "reset"
    /\ last.err = "none"
    /\ data.db = NoFile
    /\ manifest \in Versions
    /\ config = "full"
    /\ \E v \in ValidBackups(backups) : backups[v].data.db # NoFile

\* C17: an upgrade that returns nil has written nothing under the live data
\* directory, whatever convex.db the bundle ships: the data directory is as it
\* was, /etc/convex and the unit are as they were, and the binary and the
\* manifest are the bundle's.
UpgradeKeepsData ==
    [][last'.name = "upgrade" /\ last'.err = "none" =>
         /\ data' = data
         /\ UNCHANGED <<config, unit, enabled>>
         /\ binary' = last'.new
         /\ manifest' = last'.new]_vars

\* An upgrade to another version has returned nil over a convex.db that is not
\* the one bundles ship.
UpgradeKeepsDataWitness ==
    /\ last.name = "upgrade"
    /\ last.err = "none"
    /\ last.new # last.dir
    /\ binary = last.new
    /\ data.db \in Written

\* C18: a confirmed uninstall runs every step whatever failed before it: of
\* the service, the enablement, the binary, the unit file, the data root and
\* the configuration root, no more are left in place than calls failed in this
\* invocation (without systemctl the stop and the disable fail besides), and
\* what is not left in place is gone.
UninstallAttemptsEveryStep ==
    [][last'.name = "uninstall" /\ last'.err = "none" =>
         LET one(b) == IF b THEN 1 ELSE 0
             left == one(binary' # NoFile)
                     + one(unit')
                     + one(manifest' # NoFile \/ data'.ex \/ \E v \in Versions : backups'[v].ex)
                     + one(config' # "absent")
                     + one(last'.pre = "ok" /\ unit /\ svc' # NoFile)
                     + one(last'.pre = "ok" /\ enabled')
         IN  /\ left <= faults' - faults
             /\ binary' \in {binary, NoFile}
             /\ unit' => unit
             /\ <<manifest', data', backups'>> \in {<<manifest, data, backups>>,
                                                    <<NoFile, NoDir, NoBackups>>}
             /\ config' \in {config, "absent"}
             /\ svc' \in {svc, NoFile}
             /\ enabled' => enabled]_vars

\* The removal of the binary failed and the unit file, the data root and the
\* configuration root were removed all the same.
UninstallAttemptsEveryStepWitness ==
    /\ last.name = "uninstall"
    /\ last.err = "none"
    /\ binary \in Versions
    /\ ~unit
    /\ manifest = NoFile
    /\ ~data.ex
    /\ config = "absent"
    /\ svc = NoFile

\* C19: when uninstall returns nil, the binary, the unit file, the data root
\* (manifest, data directory, every backup) and the configuration root are
\* gone, whatever state it began in.
UninstallSuccessLeavesNothing ==
    [][last'.name = "uninstall" /\ last'.err = "none" =>
         /\ binary' = NoFile
         /\ ~unit'
         /\ manifest' = NoFile
         /\ ~data'.ex
         /\ backups' = NoBackups
         /\ config' = "absent"]_vars

\* C20: when performRollback fails inside upgrade, upgrade returns "rollback
\* also failed" with the error of the step that failed first: "rolled back" is
\* returned only with the binary, the data directory and the manifest equal to
\* the backup's copies; nil is returned only with no rollback run and the
\* bundle's binary and manifest installed; and after "rollback also failed" the
\* files and the service are as one failed performRollback leaves them, nothing
\* pruned and no other backup touched.
DoubleFailureReported ==
    [][last'.name = "upgrade" /\ last'.pre = "ok" =>
         LET dir == last'.dir IN
         /\ last'.rb \in {"ok", "failed"} => last'.err \in {"swap", "start", "health"}
         /\ last'.rb = "ok" =>
               /\ binary' = backups'[dir].bin
               /\ data' = backups'[dir].data
               /\ manifest' = backups'[dir].man
         /\ last'.err = "none" =>
               /\ last'.rb = "none"
               /\ binary' = last'.new
               /\ manifest' = last'.new
         /\ last'.rb = "failed" =>
               /\ last'.ret = 0
               /\ \A v \in Versions \ {dir} : backups'[v] = backups[v]
               /\ \E iv \in installNewVersion(last'.new, binary, data, manifest) :
                  \E d \in ServiceMay(iv.data, last'.new) :
                  \E sv \in {NoFile, last'.new} :
                  \E r \in performRollback(backups'[dir], iv.binary, d, iv.manifest, sv) :
                     /\ ~r.ok
                     /\ binary' = r.binary
                     /\ data' = r.data
                     /\ manifest' = r.manifest
                     /\ svc' = r.svc]_vars

\* The health gate timed out and the restore failed after the binary: "rollback
\* also failed", the backup's binary beside the bundle's manifest, the service
\* stopped.
DoubleFailureReportedWitness ==
    /\ last.name = "upgrade"
    /\ last.err = "health"
    /\ last.rb = "failed"
    /\ binary = backups[last.dir].bin
    /\ manifest = last.new
    /\ manifest # binary
    /\ svc = NoFile

\* C21: a rollback whose restore, start or health gate failed returns that
\* error and has written no backup directory; after a failed restore the
\* binary, the data directory and the manifest are as one failed pass of
\* restoreFromBackup from the chosen directory leaves them; after a failed
\* start or a failed health gate they are that directory's copies.
RollbackFailureReturnedDirectly ==
    [][/\ last'.name = "rollback"
       /\ last'.pre = "ok"
       /\ last'.err \in {"restore", "start", "health"}
       => LET b == backups[last'.dir] IN
          /\ backups' = backups
          /\ last'.err = "restore" =>
                \E sv \in {svc, NoFile} :
                \E r \in restoreFromBackup(b, binary, data, manifest, sv) :
                   /\ ~r.ok
                   /\ binary' = r.binary
                   /\ data' = r.data
                   /\ manifest' = r.manifest
                   /\ svc' = sv
          /\ last'.err \in {"start", "health"} =>
                /\ binary' = b.bin
                /\ data' = b.data
                /\ manifest' = b.man]_vars

\* The health gate of a rollback failed beside a second, different valid
\* backup: the restored files are in place.
RollbackFailureReturnedDirectlyWitness ==
    /\ last.name = "rollback"
    /\ last.err = "health"
    /\ manifest = backups[last.dir].man
    /\ \E v \in ValidBackups(backups) \ {last.dir} : backups[v].man # manifest

\* C22: no command takes a lock.  An invocation can be started whatever the
\* others are doing; two installs that both got past checkNotInstalled were
\* under way at once; and while invocations only ever ran one after the other,
\* the live installation and every listed backup hold a binary and a manifest
\* of one version, so any mixing of versions comes from interleaved steps.
Unmixed ==
    /\ binary \in Versions /\ manifest \in Versions => binary = manifest
    /\ \A v \in ValidBackups(backups) : backups[v].bin = backups[v].man

NoMutualExclusion ==
    inflight # NoInflight =>
       /\ \A p \in Procs : inflight[p].pc = "idle" => ENABLED Begin(p)
       /\ \A p, q \in Procs :
             /\ p # q
             /\ inflight[p].cmd = "install" /\ inflight[p].pc # "check"
             /\ inflight[p].err # "already_installed"
             /\ inflight[q].cmd = "install" /\ inflight[q].pc # "check"
             /\ inflight[q].err # "already_installed"
             => last.name = "overlap"
       /\ (last.name # "overlap" /\ \A p \in Procs : ~Active(p)) => Unmixed

\* Two upgrades were under way at once, both have returned, and a listed
\* backup holds the binary of one version beside the manifest of another.
NoMutualExclusionWitness ==
    /\ inflight # NoInflight
    /\ last.name = "overlap"
    /\ \A p \in Procs : inflight[p].cmd = "upgrade" /\ inflight[p].pc = "done"
    /\ \E v \in ValidBackups(backups) :
          /\ backups[v].bin \in Versions
          /\ backups[v].man \in Versions
          /\ backups[v].bin # backups[v].man

\* C23: the retention count pruning works with is the integer the setting
\* denotes when that integer is greater than 0, and 3 for every other setting
\* (empty, not a number, zero, negative); so it is at least 1, and a pruning
\* that found valid backups leaves at least one of them.
MaxRetention == 10

RECURSIVE Decimal(_)
Decimal(n) ==
    IF n < 10 THEN <<DigitChars[n + 1]>> ELSE Decimal(n \div 10) \o <<DigitChars[(n % 10) + 1]>>

Denotes(env, n) ==
    \E sign \in {<<>>, <<"+">>}, zeros \in 0..2 :
       env = sign \o [i \in 1..zeros |-> "0"] \o Decimal(n)

RetentionFromSetting ==
    [][last'.name = "prune" =>
         LET env == last'.arg
             R   == last'.ret
         IN  /\ \A n \in 1..MaxRetention : Denotes(env, n) => R = n
             /\ (\A n \in 1..MaxRetention : ~Denotes(env, n)) => R = 3
             /\ R >= 1
             /\ ValidBackups(backups) # {} => ValidBackups(backups') # {}]_vars

\* A pruning under the setting "0" has worked with 3 and left every one of
\* three valid backups in place.
RetentionFromSettingWitness ==
    /\ last.name = "prune"
    /\ last.arg = <<"0">>
    /\ last.ret = 3
    /\ Cardinality(ValidBackups(backups)) = 3

\* C24: during an upgrade every copy into the backup directory (binary, data
\* directory, manifest) is made while the service is stopped.  Stated for an
\* upgrade that runs with no other invocation under way.
BackupTakenWhileStopped ==
    [][\A p \in Procs :
         /\ inflight # NoInflight
         /\ last.name # "overlap"
         /\ inflight[p].cmd = "upgrade"
         /\ inflight[p].pc \in {"b_binary", "b_data", "b_manifest"}
         /\ inflight'[p].pc # inflight[p].pc
         => svc = NoFile]_vars

\* C25: an upgrade to the installed version that was not refused by the
\* version gate (so --force was given) and has returned nil has run the whole
\* sequence: the new binary and manifest are in place, the service runs the
\* new binary, and the directory of that version holds a valid backup with
\* reason "upgrade" whose fromVersion and toVersion are both that version.
ForcedSameVersionUpgrade ==
    [][/\ last'.name = "upgrade"
       /\ last'.err = "none"
       /\ readManifest(manifest).ok
       /\ last'.new = readManifest(manifest).version
       => LET v == last'.new IN
          /\ binary' = v /\ manifest' = v /\ svc' = v
          /\ v \in ValidBackups(backups')
          /\ backups'[v].meta.reason = "upgrade"
          /\ backups'[v].meta.version = v
          /\ backups'[v].meta.from = v
          /\ backups'[v].meta.to = v]_vars


\* C26: a backup directory with a parsable meta.json holds whole copies of the
\* binary, the data directory and the manifest of one installed state, the one
\* its metadata names: whenever a step leaves such a directory other than it
\* was, the step is an upgrade from that version and the directory holds
\* exactly the binary, the data directory and the manifest that were installed
\* when the upgrade began.
MetadataImpliesComplete ==
    [][\A v \in Versions :
         backups'[v].ex /\ backups'[v].meta.st = "ok" /\ backups'[v] # backups[v] =>
            /\ last'.name = "upgrade"
            /\ last'.dir = v
            /\ readManifest(manifest).version = v
            /\ backups'[v].meta.version = v
            /\ backups'[v].bin = binary
            /\ backups'[v].data = data
            /\ backups'[v].man = manifest]_vars

\* C27: when the restore of a rollback, or of the compensation of an upgrade,
\* has returned nil, the live data directory holds exactly the entries of the
\* backup's data copy, each with the backup's content, whatever the live data
\* directory held before.
RestoreReplacesData ==
    [][/\ last'.pre = "ok"
       /\ \/ last'.name = "rollback" /\ last'.err \in {"none", "start", "health"}
          \/ last'.name = "upgrade" /\ last'.rb = "ok"
       => /\ data'.ex
          /\ data'.db = backups'[last'.dir].data.db
          /\ data'.storage = backups'[last'.dir].data.storage]_vars

\* A rollback has returned nil over a live data directory that held a
\* convex.db; the backup's data copy has none, and none is left.
RestoreReplacesDataWitness ==
    /\ last.name = "rollback"
    /\ last.err = "none"
    /\ last.had \in Written
    /\ backups[last.dir].data.ex
    /\ backups[last.dir].data.db = NoFile
    /\ data.db = NoFile

\* C28: every step of an upgrade or of a rollback that changes the binary, the
\* data directory or the manifest is taken while the service is stopped.
\* Stated for an invocation that runs with no other invocation under way.
WritesOnlyWhileStopped ==
    [][\A p \in Procs :
         /\ inflight # NoInflight
         /\ last.name # "overlap"
         /\ inflight[p].cmd \in {"upgrade", "rollback"}
         /\ inflight'[p] # inflight[p]
         /\ <<binary, data, manifest>>' # <<binary, data, manifest>>
         => svc = NoFile]_vars

\* The host of the last case of InitRace is one the commands lead to.
HalfUninstalledWhileRunning ==
    ~(/\ binary = NoFile
      /\ manifest = VersionSeq[1]
      /\ data = LiveData
      /\ backups = [NoBackups EXCEPT ![VersionSeq[1]] = BackupOf(VersionSeq[1], 0)]
      /\ config = "absent"
      /\ unit = FALSE
      /\ enabled = TRUE
      /\ svc = VersionSeq[1])

\* C29: an install that returns an error has removed nothing of what it or an
\* earlier command wrote, and no backup.  When it is the health gate that
\* timed out, the bundle's manifest and binary are installed, the configuration
\* and the unit file are written, and the service is enabled and running; and
\* an install over an existing manifest is refused as already installed and
\* changes nothing.
FailedInstallStays ==
    [][last'.name = "install" /\ last'.pre = "ok" =>
         /\ manifest # NoFile =>
               /\ last'.err = "already_installed"
               /\ UNCHANGED <<binary, manifest, data, backups, config, unit, enabled, svc>>
         /\ last'.err # "none" =>
               /\ binary # NoFile => binary' # NoFile
               /\ manifest # NoFile => manifest' # NoFile
               /\ data.ex => data'.ex
               /\ data.db # NoFile => data'.db # NoFile
               /\ data.storage => data'.storage
               /\ ConfigRank(config') >= ConfigRank(config)
               /\ unit => unit'
               /\ enabled => enabled'
               /\ backups' = backups
         /\ last'.err \in {"start", "health"} =>
               /\ binary' = last'.new
               /\ manifest' = last'.new
               /\ data' = [ex |-> TRUE, db |-> Seed, storage |-> TRUE]
               /\ config' = "full"
               /\ unit'
         /\ last'.err = "health" =>
               /\ enabled'
               /\ svc' \in Versions]_vars

\* An install has returned the health gate's error: its manifest is on disk
\* and the service is enabled and running.
FailedInstallStaysWitness ==
    /\ last.name = "install"
    /\ last.err = "health"
    /\ manifest = last.new
    /\ ~checkNotInstalled
    /\ enabled
    /\ svc \in Versions

HealthTimeout == 30
ClientTimeout == 2
PollInterval  == 1

\* What client.Get(url + "/version") can come to: a response with status 200,
\* a response with another status, an error (connection refused, reset), or no
\* answer until the client gives up.
ProbeOutcomes == {"200", "non200", "error", "hang"}

\* The seconds a probe takes: an answer or an error comes before the client's
\* timeout, a hung probe ends with it.
ProbeTakes(o) == IF o = "hang" THEN {ClientTimeout} ELSE 0..(ClientTimeout - 1)

\* Any answer at all taken for health.
answered(o) == o \in {"200", "non200"}

\* err == nil && resp.StatusCode == http.StatusOK
healthy(o) == o = "200"

InitHealth ==
    /\ binary = DirOrder[1]
    /\ manifest = DirOrder[1]
    /\ data = [ex |-> TRUE, db |-> Seed, storage |-> TRUE]
    /\ backups = NoBackups
    /\ config = "full"
    /\ unit = TRUE
    /\ enabled = TRUE
    /\ svc = DirOrder[1]
    /\ now = 0
    /\ faults = 0
    /\ last = NoLast
    /\ inflight = [cmd |-> "waitForHealth", pc |-> "test", deadline |-> HealthTimeout,
                   seen |-> FALSE, ret |-> "none"]

\* for time.Now().Before(deadline); after the loop, the timeout error.
HealthTest ==
    /\ inflight.pc = "test"
    /\ inflight' = IF now < inflight.deadline
                   THEN [inflight EXCEPT !.pc = "probe"]
                   ELSE [inflight EXCEPT !.pc = "done", !.ret = "timeout"]
    /\ UNCHANGED <<binary, manifest, data, backups, config, unit, enabled, svc, now, faults, last>>

\* client.Get and the test of its result.
HealthProbe ==
    /\ inflight.pc = "probe"
    /\ \E o \in ProbeOutcomes : \E d \in ProbeTakes(o) :
         /\ now' = now + d
         /\ last' = [NoLast EXCEPT !.name = "probe", !.err = o]
         /\ inflight' = IF healthy(o)
                        THEN [inflight EXCEPT !.pc = "done", !.ret = "nil", !.seen = o = "200"]
                        ELSE [inflight EXCEPT !.pc = "sleep"]
    /\ UNCHANGED <<binary, manifest, data, backups, config, unit, enabled, svc, faults>>

\* time.Sleep(1 * time.Second)
HealthSleep ==
    /\ inflight.pc = "sleep"
    /\ now' = now + PollInterval
    /\ inflight' = [inflight EXCEPT !.pc = "test"]
    /\ UNCHANGED <<binary, manifest, data, backups, config, unit, enabled, svc, faults, last>>

NextHealth == HealthTest \/ HealthProbe \/ HealthSleep

\* The call runs on: a probe returns within the client's timeout, a sleep ends.
SpecHealth == InitHealth /\ [][NextHealth]_vars /\ WF_vars(NextHealth)

HungProbeCostsOneInterval ==
    inflight.pc = "done" => now <= inflight.deadline + PollInterval

\* C33: a reset that returns nil has removed every entry of the data directory
\* and left the directory with an empty storage/ alone, the service having
\* been stopped for it; a reset whose stop fails returns that error with the
\* data directory as it was.
ResetEmptiesData ==
    [][last'.name = "reset" =>
         /\ last'.err = "none" => data' = [ex |-> TRUE, db |-> NoFile, storage |-> TRUE]
         /\ last'.err = "stop" => data' = data /\ svc' = svc]_vars

\* The installed state as each command derives it from the manifest file:
\* runStatus reads and parses it, runReset asks os.Stat for it.
statusInstalled == readManifest(manifest).ok
resetInstalled  == manifest # NoFile

\* C34: in every state install's already-installed check, upgrade's
\* not-installed check, reset's not-installed check and status derive the same
\* installed state from the manifest file, so exactly one of install and
\* upgrade passes its check.
ChecksAgree ==
    /\ ~checkNotInstalled <=> readManifest(manifest).ok
    /\ resetInstalled <=> readManifest(manifest).ok
    /\ statusInstalled <=> ~checkNotInstalled
    /\ checkNotInstalled # readManifest(manifest).ok

\* C35: an upgrade that returns the error of its backup or of its stop has left
\* the binary, the data directory, the manifest, the configuration and the
\* unit as they were and the service as it was, started nothing, and changed
\* no backup directory but that of the version installed.
EarlyFailureWritesBackupOnly ==
    [][last'.name = "upgrade" /\ last'.err \in {"backup", "stop"} =>
         /\ UNCHANGED <<binary, data, manifest, config, unit, enabled>>
         /\ svc' = svc
         /\ \A v \in Versions \ {readManifest(manifest).version} : backups'[v] = backups[v]]_vars

\* An upgrade of a running installation has returned the error of its backup
\* and left a backup directory without meta.json.
EarlyFailureWritesBackupOnlyWitness ==
    /\ last.name = "upgrade"
    /\ last.err = "backup"
    /\ last.dir = manifest
    /\ backups[last.dir].ex
    /\ backups[last.dir].meta.st = "absent"
    /\ svc = manifest
    /\ binary = manifest

\* ------------------------------------------------------------- retention kept
\* Installs, upgrades, rollbacks and resets over every version name there is,
\* under one retention count kept in last.ret from the start; no call fails
\* but the health gate, so a failed upgrade is one whose compensating restore
\* succeeds.
MaxFixedRetention == 2

InitRetain ==
    /\ binary = NoFile
    /\ manifest = NoFile
    /\ data = NoDir
    /\ backups = [v \in PruneDirs |-> NoBackup]
    /\ config = "absent"
    /\ unit = FALSE
    /\ enabled = FALSE
    /\ svc = NoFile
    /\ now = 0
    /\ faults = 0
    /\ \E R \in 1..MaxFixedRetention : last = [NoLast EXCEPT !.ret = R]
    /\ inflight = NoInflight

Returned(name, new, dir, e, rb) ==
    last' = [NoLast EXCEPT !.name = name, !.new = new, !.dir = dir, !.err = e, !.rb = rb,
                           !.ret = last.ret]

\* runInstall of a complete bundle on a host without manifest.
RetainInstall ==
    /\ checkNotInstalled
    /\ \E w \in PruneDirs, up \in BOOLEAN :
         /\ binary' = w
         /\ manifest' = w
         /\ svc' = w
         /\ Returned("install", w, "", IF up THEN "none" ELSE "health", "none")
    /\ data' = LiveData
    /\ config' = "full"
    /\ unit' = TRUE
    /\ enabled' = TRUE
    /\ UNCHANGED <<backups, now, faults, inflight>>

\* runUpgrade from the installed version to w (to the same version with
\* --force), its backup stamped at second t, the new version healthy or not.
RetainUpgrade ==
    /\ manifest \in PruneDirs
    /\ \E w \in PruneDirs, t \in now..Min(now + 1, MaxStamp), up \in BOOLEAN :
         LET dir == backupDir(manifest, w) IN
         \E cb \in {Sure(createBackup(backups[dir], binary, data, manifest, manifest, w, t))} :
         LET bk == [backups EXCEPT ![dir] = cb.b] IN
             /\ now' = t
             /\ IF ~cb.ok
                THEN /\ backups' = bk
                     /\ Returned("upgrade", w, dir, "backup", "none")
                     /\ UNCHANGED <<binary, manifest, data, svc>>
                ELSE IF up
                THEN /\ backups' = pruneBackups(bk, last.ret)
                     /\ binary' = w
                     /\ manifest' = w
                     /\ svc' = w
                     /\ data' = data
                     /\ Returned("upgrade", w, dir, "none", "none")
                ELSE \E rb \in {Sure(performRollback(bk[dir], w, data, w, NoFile))} :
                     /\ backups' = bk
                     /\ binary' = rb.binary
                     /\ manifest' = rb.manifest
                     /\ data' = rb.data
                     /\ svc' = rb.svc
                     /\ Returned("upgrade", w, dir, "health", IF rb.ok THEN "ok" ELSE "failed")
    /\ UNCHANGED <<config, unit, enabled, faults, inflight>>

\* runRollback to the most recent backup or to the one of a version.
RetainRollback ==
    /\ \E arg \in PruneDirs \cup {""} :
         LET found == IF arg # "" THEN findByVersion(backups, arg)
                      ELSE findMostRecentBackup(backups)
         IN  IF ~found.ok
             THEN /\ Returned("rollback", "", "", "not_found", "none")
                  /\ UNCHANGED <<binary, manifest, data, svc>>
             ELSE \E r \in {Sure(performRollback(backups[found.dir], binary, data, manifest,
                                                 NoFile))} :
                  /\ binary' = r.binary
                  /\ manifest' = r.manifest
                  /\ data' = r.data
                  /\ svc' = r.svc
                  /\ Returned("rollback", "", found.dir, IF r.ok THEN "none" ELSE "restore", "none")
    /\ UNCHANGED <<backups, config, unit, enabled, now, faults, inflight>>

\* runReset, confirmed.
RetainReset ==
    /\ resetInstalled
    /\ unit
    /\ data' = (CHOOSE o \in resetData(data) : ~o.fault).data
    /\ svc' = Sure(startUnit(unit, NoFile, binary)).svc
    /\ Returned("reset", "", "", "none", "none")
    /\ UNCHANGED <<binary, manifest, backups, config, unit, enabled, now, faults, inflight>>

NextRetain == RetainInstall \/ RetainUpgrade \/ RetainRollback \/ RetainReset

SpecRetain == InitRetain /\ [][NextRetain]_vars

RollbackIsIdempotent ==
    /\ [][last'.name = "rollback" => backups' = backups]_vars
    /\ [](last.name = "rollback" /\ last.arg = "" /\ last.err = "none" =>
            LET f == findMostRecentBackup(backups) IN
            /\ f.ok /\ f.dir = last.dir
            /\ binary = backups[f.dir].bin
            /\ data = backups[f.dir].data
            /\ manifest = backups[f.dir].man)
    /\ [][last'.name = "rollback" /\ last'.arg = "" /\ last'.err = "none"
          /\ binary = backups[last'.dir].bin /\ data = backups[last'.dir].data
          /\ manifest = backups[last'.dir].man
          => binary' = binary /\ data' = data /\ manifest' = manifest]_vars

\* A rollback to the latest backup has returned nil, an older valid backup is
\* there to walk back to, and the next rollback would take the same directory.
RollbackIsIdempotentWitness ==
    /\ last.name = "rollback"
    /\ last.arg = ""
    /\ last.err = "none"
    /\ last.had # data.db
    /\ findMostRecentBackup(backups).dir = last.dir
    /\ \E v \in ValidBackups(backups) \ {last.dir} :
         backups[v].meta.ts < backups[last.dir].meta.ts

\* C38: an install that gets past its checks and fails at the directories, the
\* assets, the credentials, the environment file or the unit leaves no manifest,
\* so that checkNotInstalled passes again, and has neither enabled nor started
\* the service; a manifest it leaves is written after the binary, the database,
\* the configuration and the unit; and it enables or starts the service only
\* with the bundle's manifest in place.
ManifestCopiedLast ==
    [][last'.name = "install" /\ last'.pre = "ok"
       /\ last'.err \notin {"already_installed", "invalid_bundle"} =>
         /\ last'.err \in {"dirs", "assets", "creds", "env", "unit"} =>
               /\ manifest' = NoFile
               /\ svc' = svc
               /\ enabled' = enabled
         /\ manifest' # NoFile =>
               /\ binary' = last'.new
               /\ data'.db = Seed
               /\ config' = "full"
               /\ unit'
         /\ last'.err \in {"start", "health", "none"} \/ svc' # svc \/ enabled' # enabled =>
               manifest' = last'.new]_vars

\* An install has failed at the credentials, the environment file or the unit
\* with the binary already copied: there is no manifest and install can run
\* again.
ManifestCopiedLastWitness ==
    /\ last.name = "install"
    /\ last.err \in {"creds", "env", "unit"}
    /\ binary = last.new
    /\ manifest = NoFile
    /\ checkNotInstalled
    /\ svc = NoFile

\* C39: the version gate of upgrade holds exactly when the two version strings
\* are equal and --force is not given; an upgrade that has passed its checks
\* returns the "already at version" error only for the installed version, and
\* for any other bundle version, an older one included, goes on to the backup
\* of the installed version.
GateIsStringEquality ==
    /\ \A v \in Versions, w \in Versions, f \in BOOLEAN :
         SameVersionGate(v, w, f) <=> (w = v /\ ~f)
    /\ [][last'.name = "upgrade" /\ last'.pre = "ok"
          /\ last'.err \notin {"not_installed", "invalid_bundle"} =>
            LET v == readManifest(manifest).version IN
            /\ last'.err = "same_version" => last'.new = v
            /\ last'.new # v => last'.err # "same_version" /\ last'.dir = v]_vars

\* An upgrade from a version to an older one has returned nil: the older
\* version is installed and the newer one backed up.
GateIsStringEqualityWitness ==
    /\ last.name = "upgrade"
    /\ last.err = "none"
    /\ last.dir \in Versions
    /\ VersionRank(last.new) < VersionRank(last.dir)
    /\ manifest = last.new
    /\ binary = last.new
    /\ backups[last.dir].ex /\ backups[last.dir].meta.version = last.dir

====
